---- MODULE Spec2Model ----
(***************************************************************************)
(* Split GPU placement of the PPO trainer:                                 *)
(* TaskRunnerSplit.init_resource_pool_mgr (verl/trainer/main_ppo_split.py) *)
(*                                                                         *)
(* The runner owns a role -> pool-name table (self.mapping).  The method   *)
(* reads the trainer and reward-model configuration, builds the dict       *)
(* resource_pool_spec (pool name -> per-node GPU counts), writes two       *)
(* entries of self.mapping and either raises ValueError or returns a       *)
(* ResourcePoolManager built from the dict and the table.                  *)
(*                                                                         *)
(* Python's // and % round towards minus infinity, as \div and % do here.  *)
(* A Python dict keeps insertion order: it is modelled as a sequence of    *)
(* [name, counts] records with unique names.                               *)
(***************************************************************************)
EXTENDS Integers, Sequences, FiniteSets, TLC

(* ------------------------------ bounds --------------------------------- *)
MaxGpus == 5
MaxNodes == 2
MaxRewardGpus == 2
MaxRewardNodes == 2
MaxCalls == 2

(* ----------------------------- vocabulary ------------------------------ *)
\* Role enumeration (imported at line 106; its members beyond ActorRollout
\* and Critic are those the specification lists).
Roles == {"ActorRollout", "Critic", "Reference", "RewardModel"}

actor_rollout_ref_pool_id == "actor_rollout_ref_pool"
critic_pool_id == "critic_pool"

reward_pool_id_collides == "critic_pool"
reward_pool_id == "reward_pool"

\* A role that is not a key of self.mapping.
NoPool == "<absent>"
\* No ResourcePoolManager was returned.
NoManager == "<none>"
\* Pool names the table may hold when the method is entered: the three names
\* of this file and one set by code that ran earlier on the runner.
PoolNames == {actor_rollout_ref_pool_id, critic_pool_id, reward_pool_id, "global_pool"}

Configs ==
    [n_gpus_per_node : -1..MaxGpus,
     nnodes : -1..MaxNodes,
     enable_resource_pool : BOOLEAN,
     rm_n_gpus_per_node : -1..MaxRewardGpus,
     rm_nnodes : -1..MaxRewardNodes]

NoConfig ==
    [n_gpus_per_node |-> 0, nnodes |-> 0, enable_resource_pool |-> FALSE,
     rm_n_gpus_per_node |-> 0, rm_nnodes |-> 0]

(* --------------------------- Python helpers ---------------------------- *)
\* [x] * k : k copies of x, the empty list when k <= 0.
Repeat(x, k) == IF k <= 0 THEN <<>> ELSE [i \in 1..k |-> x]

Keys(d) == {d[i].name : i \in 1..Len(d)}

\* d[k]
DictGet(d, k) == (CHOOSE e \in {d[i] : i \in 1..Len(d)} : e.name = k).counts

\* d[k] = v : replaces the value of an existing key in place, appends a new key.
DictSet(d, k, v) ==
    IF k \in Keys(d)
    THEN [i \in 1..Len(d) |-> IF d[i].name = k THEN [name |-> k, counts |-> v] ELSE d[i]]
    ELSE Append(d, [name |-> k, counts |-> v])

(* -------------------------- GPU allocation ----------------------------- *)
GpusPerPoolUnhalved(n) == n
\* line 118
GpusPerPool(n) == n \div 2

ActorGpusFloor(n) == n \div 2
\* line 125
ActorGpus(n) == (n + 1) \div 2

CriticGpusCeil(n) == (n + 1) \div 2
\* line 126
CriticGpus(n) == n \div 2

\* lines 116-130 : the dict literal of either branch
BuildSplit(n, nn) ==
    IF n % 2 = 0
    THEN << [name |-> actor_rollout_ref_pool_id, counts |-> Repeat(GpusPerPool(n), nn)],
            [name |-> critic_pool_id, counts |-> Repeat(GpusPerPool(n), nn)] >>
    ELSE << [name |-> actor_rollout_ref_pool_id, counts |-> Repeat(ActorGpus(n), nn)],
            [name |-> critic_pool_id, counts |-> Repeat(CriticGpus(n), nn)] >>

MapRolesReadsStale(m) ==
    [m EXCEPT !["ActorRollout"] = actor_rollout_ref_pool_id,
              !["Reference"] = m["Critic"],
              !["Critic"] = critic_pool_id]
\* lines 137-138
MapRoles(m) ==
    [m EXCEPT !["ActorRollout"] = actor_rollout_ref_pool_id,
              !["Critic"] = critic_pool_id]

RewardPoolErrorStrict(cfg) ==
    IF ~cfg.enable_resource_pool THEN "none"
    ELSE IF cfg.rm_n_gpus_per_node < 0
         THEN "ValueError: config.reward_model.n_gpus_per_node must be greater than 0"
    ELSE IF cfg.rm_nnodes < 0
         THEN "ValueError: config.reward_model.nnodes must be greater than 0"
    ELSE "none"
\* lines 141-145 : the error raised while handling the reward model, if any
RewardPoolError(cfg) ==
    IF ~cfg.enable_resource_pool THEN "none"
    ELSE IF cfg.rm_n_gpus_per_node <= 0
         THEN "ValueError: config.reward_model.n_gpus_per_node must be greater than 0"
    ELSE IF cfg.rm_nnodes <= 0
         THEN "ValueError: config.reward_model.nnodes must be greater than 0"
    ELSE "none"

RewardPoolSwapped(cfg) == Repeat(cfg.rm_nnodes, cfg.rm_n_gpus_per_node)
\* line 148
RewardPool(cfg) == Repeat(cfg.rm_n_gpus_per_node, cfg.rm_nnodes)

\* lines 141-149 : resource_pool_spec when the reward model has been handled
WithRewardPool(spec, cfg) ==
    IF cfg.enable_resource_pool /\ RewardPoolError(cfg) = "none"
    THEN DictSet(spec, reward_pool_id, RewardPool(cfg))
    ELSE spec

(* ------------------------------- state --------------------------------- *)
\* the config argument of the last call
VARIABLE config
\* self.mapping
VARIABLE mapping
\* self.mapping when the last call was entered
VARIABLE mapping_at_entry
\* the local dict when the last call ended
VARIABLE resource_pool_spec
\* the manager the last call returned, or NoManager; its mapping field is the
\* table as handed over at line 152 (the same dict object as self.mapping)
VARIABLE resource_pool_manager
\* the exception the last call raised, or "none"
VARIABLE error
\* "init", "returned" or "raised"
VARIABLE pc
\* number of calls made on this runner
VARIABLE calls

vars == <<config, mapping, mapping_at_entry, resource_pool_spec,
          resource_pool_manager, error, pc, calls>>

Init ==
    /\ config = NoConfig
    /\ mapping \in [Roles -> PoolNames \cup {NoPool}]
    /\ mapping_at_entry = mapping
    /\ resource_pool_spec = <<>>
    /\ resource_pool_manager = NoManager
    /\ error = "none"
    /\ pc = "init"
    /\ calls = 0

\* lines 93-155 : one call of init_resource_pool_mgr(config = cfg)
init_resource_pool_mgr(cfg) ==
    /\ config' = cfg
    /\ mapping_at_entry' = mapping
    /\ calls' = calls + 1
    /\ mapping' = MapRoles(mapping)
    /\ error' = RewardPoolError(cfg)
    /\ resource_pool_spec' =
           WithRewardPool(BuildSplit(cfg.n_gpus_per_node, cfg.nnodes), cfg)
    /\ IF RewardPoolError(cfg) = "none"
       THEN /\ pc' = "returned"
            /\ resource_pool_manager' =
                   [resource_pool_spec |-> resource_pool_spec', mapping |-> mapping']
       ELSE /\ pc' = "raised"
            /\ resource_pool_manager' = NoManager

\* run() calls the method with the job's configuration
Call ==
    /\ pc = "init"
    /\ \E cfg \in Configs : init_resource_pool_mgr(cfg)

\* the method is called again on the same runner with the same configuration
CallAgain ==
    /\ pc # "init"
    /\ calls < MaxCalls
    /\ init_resource_pool_mgr(config)

Next == Call \/ CallAgain

Spec == Init /\ [][Next]_vars

(* ---------------------------- abbreviations ---------------------------- *)
Ended == pc # "init"
Returned == pc = "returned"
Raised == pc = "raised"
ActorRows == DictGet(resource_pool_spec, actor_rollout_ref_pool_id)
CriticRows == DictGet(resource_pool_spec, critic_pool_id)
AllEqual(s, v) == \A i \in 1..Len(s) : s[i] = v

TypeOK ==
    /\ config \in Configs \cup {NoConfig}
    /\ mapping \in [Roles -> PoolNames \cup {NoPool}]
    /\ pc \in {"init", "returned", "raised"}
    /\ calls \in 0..MaxCalls

RewardRows == DictGet(resource_pool_spec, reward_pool_id)
EvenShape == config.nnodes >= 1 /\ config.n_gpus_per_node >= 2 /\ config.n_gpus_per_node % 2 = 0
OddShape == config.nnodes >= 1 /\ config.n_gpus_per_node >= 3 /\ config.n_gpus_per_node % 2 = 1
ValidShape == config.nnodes >= 1 /\ config.n_gpus_per_node >= 1
RewardEnabled == config.enable_resource_pool
\* a cluster shape the split is meant for: at least one node, two devices per node
SplittableShape == config.nnodes >= 1 /\ config.n_gpus_per_node >= 2
\* the dict the method builds for the same configuration with the reward pool disabled
SpecWithoutRewardPool ==
    WithRewardPool(BuildSplit(config.n_gpus_per_node, config.nnodes),
                   [config EXCEPT !.enable_resource_pool = FALSE])

(* ------------------------------- claims -------------------------------- *)

\* C1: with nnodes >= 1 and an even n_gpus_per_node >= 2, both pools are
\* sequences of length nnodes whose every element is half of n_gpus_per_node.
C1_EvenSplit ==
    (Ended /\ EvenShape) =>
        /\ Len(ActorRows) = config.nnodes
        /\ Len(CriticRows) = config.nnodes
        /\ \A i \in 1..config.nnodes :
              /\ 2 * ActorRows[i] = config.n_gpus_per_node
              /\ 2 * CriticRows[i] = config.n_gpus_per_node

C1_Witness ==
    /\ Returned
    /\ config.n_gpus_per_node = 4
    /\ config.nnodes = 2
    /\ ActorRows = <<2, 2>>
    /\ CriticRows = <<2, 2>>

\* C2: with nnodes >= 1 and an odd n_gpus_per_node >= 3, on every node the
\* actor pool gets one device more than the critic pool and the two counts
\* add up to n_gpus_per_node (ceil to the first pool, floor to the second).
C2_OddSplit ==
    (Ended /\ OddShape) =>
        /\ Len(ActorRows) = config.nnodes
        /\ Len(CriticRows) = config.nnodes
        /\ \A i \in 1..config.nnodes :
              /\ ActorRows[i] = CriticRows[i] + 1
              /\ ActorRows[i] + CriticRows[i] = config.n_gpus_per_node

C2_Witness ==
    /\ Returned
    /\ config.n_gpus_per_node = 3
    /\ config.nnodes = 1
    /\ ActorRows = <<2>>
    /\ CriticRows = <<1>>

\* C3: for a valid cluster shape the two primary pools have one row per node
\* and at every node their counts sum to exactly n_gpus_per_node, with the
\* reward pool enabled or not.
C3_Conservation ==
    (Ended /\ ValidShape) =>
        /\ Len(ActorRows) = config.nnodes
        /\ Len(CriticRows) = config.nnodes
        /\ \A i \in 1..config.nnodes :
              ActorRows[i] + CriticRows[i] = config.n_gpus_per_node

C3_Witness ==
    /\ Returned
    /\ RewardEnabled
    /\ config.n_gpus_per_node = 5
    /\ config.nnodes = 2
    /\ ActorRows = <<3, 3>>
    /\ CriticRows = <<2, 2>>
    /\ reward_pool_id \in Keys(resource_pool_spec)

\* C4: a call with n_gpus_per_node < 2 or nnodes <= 0 raises and returns no
\* manager (so no zero-device row and no empty pool is ever produced).
C4_InvalidShapeRejected ==
    (Ended /\ (config.n_gpus_per_node < 2 \/ config.nnodes <= 0)) =>
        /\ Raised
        /\ resource_pool_manager = NoManager

\* C5: with the reward pool enabled and reward_model.n_gpus_per_node <= 0 or
\* reward_model.nnodes <= 0 the call raises, adds no reward_pool to the dict
\* and returns no manager.
C5_InvalidRewardPoolRejected ==
    (Ended /\ RewardEnabled
           /\ (config.rm_n_gpus_per_node <= 0 \/ config.rm_nnodes <= 0)) =>
        /\ Raised
        /\ error # "none"
        /\ resource_pool_manager = NoManager
        /\ reward_pool_id \notin Keys(resource_pool_spec)

C5_Witness ==
    /\ Raised
    /\ RewardEnabled
    /\ config.rm_n_gpus_per_node = 0
    /\ config.rm_nnodes = 1
    /\ resource_pool_manager = NoManager
    /\ Keys(resource_pool_spec) = {actor_rollout_ref_pool_id, critic_pool_id}

\* C6: after a successful call ActorRollout and Reference are bound to the
\* actor pool and Critic to the critic pool, whatever the table held before
\* (stated for splittable cluster shapes, so that it does not rest on C4).
C6_SplitRoleMapping ==
    (Returned /\ SplittableShape) =>
        /\ mapping["ActorRollout"] = actor_rollout_ref_pool_id
        /\ mapping["Reference"] = actor_rollout_ref_pool_id
        /\ mapping["Critic"] = critic_pool_id

\* C7: after a successful call with the reward pool enabled, the reward pool
\* is the third pool of the plan and RewardModel is bound to it
\* (stated for splittable cluster shapes).
C7_RewardModelBound ==
    (Returned /\ RewardEnabled /\ SplittableShape) =>
        /\ Len(resource_pool_manager.resource_pool_spec) = 3
        /\ resource_pool_manager.resource_pool_spec[3].name = reward_pool_id
        /\ resource_pool_manager.mapping["RewardModel"] =
               resource_pool_manager.resource_pool_spec[3].name

\* C8: a call that raises leaves the runner's role table as it was when the
\* call was entered (stated for splittable cluster shapes).
C8_AllOrNothing ==
    (Raised /\ SplittableShape) => mapping = mapping_at_entry

\* C9: whenever a manager is returned, every role bound in the table handed
\* to it is bound to a key of the pool spec handed to it
\* (stated for splittable cluster shapes).
C9_RolesResolve ==
    (Returned /\ SplittableShape) =>
        \A r \in Roles :
            resource_pool_manager.mapping[r] # NoPool =>
                resource_pool_manager.mapping[r] \in
                    Keys(resource_pool_manager.resource_pool_spec)

\* C10: when enabled with positive counts the reward pool has reward_model.nnodes
\* rows, each reward_model.n_gpus_per_node; its name differs from both primary
\* pools; and the primary pools' rows are those built for the same cluster with
\* the reward pool disabled.
C10_RewardPoolIndependent ==
    (Returned /\ RewardEnabled) =>
        /\ Len(RewardRows) = config.rm_nnodes
        /\ AllEqual(RewardRows, config.rm_n_gpus_per_node)
        /\ reward_pool_id \notin {actor_rollout_ref_pool_id, critic_pool_id}
        /\ Keys(resource_pool_spec) =
               {actor_rollout_ref_pool_id, critic_pool_id, reward_pool_id}
        /\ ActorRows = DictGet(SpecWithoutRewardPool, actor_rollout_ref_pool_id)
        /\ CriticRows = DictGet(SpecWithoutRewardPool, critic_pool_id)

C10_Witness ==
    /\ Returned
    /\ RewardEnabled
    /\ config.n_gpus_per_node = 2
    /\ config.nnodes = 2
    /\ config.rm_n_gpus_per_node = 1
    /\ config.rm_nnodes = 2
    /\ RewardRows = <<1, 1>>
    /\ ActorRows = <<1, 1>>
    /\ CriticRows = <<1, 1>>

\* C11: a call made again on the same runner with the same configuration
\* ends as the call before it did: same outcome (returned or raised, same
\* error), same pool spec, same role table and same manager.  As the call
\* before it may be the first one, the repeated result is also that of a
\* single call and does not depend on what the earlier call left behind.
C11_Idempotent ==
    [][pc # "init" =>
         /\ config' = config
         /\ pc' = pc
         /\ error' = error
         /\ resource_pool_spec' = resource_pool_spec
         /\ mapping' = mapping
         /\ resource_pool_manager' = resource_pool_manager]_vars

\* a second call has returned on a runner whose table the first call changed
C11_Witness ==
    /\ calls = 2
    /\ Returned
    /\ RewardEnabled
    /\ config.n_gpus_per_node = 3
    /\ config.nnodes = 2
    /\ mapping_at_entry = mapping
    /\ mapping["Reference"] = "global_pool"
    /\ mapping["RewardModel"] = NoPool
    /\ resource_pool_manager.mapping = mapping
    /\ ActorRows = <<2, 2>>
    /\ CriticRows = <<1, 1>>

====
